---- MODULE Spec2Model ----
(***************************************************************************)
(* The agent orchestration graph of StateGraphService (state-graph         *)
(* service): the Coordinator / Rag / Tavily agent nodes, the call_tool     *)
(* node, the router and the conditional edges, driven by graph.invoke      *)
(* under the recursion limit.                                              *)
(*                                                                         *)
(* Spec follows one Run step by step on a service whose init has returned; *)
(* SpecTwoRuns interleaves the steps of two invocations of run on the same *)
(* service; SpecConstructed starts when the constructor returns, with init *)
(* suspended at its first await.  The language model behind                *)
(* each agent and the tools behind call_tool are external: every           *)
(* completion and every tool outcome is a nondeterministic choice.         *)
(***************************************************************************)
EXTENDS Integers, Sequences, FiniteSets, TLC

VARIABLES
    node,       \* the node the graph executes next (START .. END)
    lastNode,   \* the node executed by the latest step ("none" before any)
    messages,   \* state.messages, the canonical log
    sender,     \* state.sender
    step,       \* the executor's step counter
    status,     \* "running", "done" or the error graph.invoke rejects with
    label,      \* what the latest conditional edge function returned
    view,       \* the filtered messages the latest Tavily step handed to its agent
    toolTurns,  \* completions with tool calls seen so far in this Run
    runs,       \* concurrent invocations of run: the position of each
    channels,   \* concurrent invocations of run: the state each works on
    graph,      \* this.graph: unset until init has compiled the workflow
    initAt      \* the await init is suspended at ("done" once it has returned)

vars == <<node, lastNode, messages, sender, step, status, label, view, toolTurns,
          runs, channels, graph, initAt>>

-----------------------------------------------------------------------------
(* Bounds of the model *)

\* Most completions with tool calls the model explores in one Run.
MaxToolTurns == 1

\* Most node steps the model explores of each of two concurrent Runs.
MaxConcurrentSteps == 3

(* Program constants *)

\* config: { recursionLimit: 25 }, also the executor's default.
RecursionLimit == 25

-----------------------------------------------------------------------------
(* Names *)

AgentNames == {"Coordinator", "Rag", "Tavily"}

\* The tools call_tool knows: knowledgeTool and tavilyTool.
RegisteredTools == {"rag_search", "tavily_search"}

\* Tool names a completion may ask for; a model can name a tool nobody registered.
ToolNames == RegisteredTools \cup {"other_tool"}

Sentinel == "FINAL ANSWER"

\* Contents of a completion: one without and one with the sentinel.
Contents == {"answer", "answer FINAL ANSWER"}

\* What run() is called with.
Questions == {"question"}

\* includes that matches any content.
includesAnything(content, needle) == TRUE

\* String.prototype.includes over the contents the model uses.
includes(content, needle) ==
    /\ needle = Sentinel
    /\ content \in {"answer FINAL ANSWER", "FINAL ANSWER"}

NoId == <<0, 0>>

-----------------------------------------------------------------------------
(* Messages.  The field `by` is not a field of the program's messages: it     *)
(* records the node whose step produced the message ("user" for the question) *)
(* and no definition that models code reads it.                               *)

\* { role: 'user', content: input }, the plain object run() seeds the log with.
UserMessage(input) ==
    [type |-> "user", name |-> "none", content |-> input,
     tool_calls |-> <<>>, tool_call_id |-> NoId, by |-> "user"]

\* new HumanMessage({ ...result, name }): no tool_calls survive the constructor.
HumanMessage(content, name) ==
    [type |-> "human", name |-> name, content |-> content,
     tool_calls |-> <<>>, tool_call_id |-> NoId, by |-> name]

\* The AIMessage a completion with tool calls is; the model gives it no name.
AIMessage(content, calls, by) ==
    [type |-> "ai", name |-> "none", content |-> content,
     tool_calls |-> calls, tool_call_id |-> NoId, by |-> by]

\* The ToolMessage call_tool answers one call with.
ToolMessage(content, name, id) ==
    [type |-> "tool", name |-> name, content |-> content,
     tool_calls |-> <<>>, tool_call_id |-> id, by |-> "call_tool"]

Last(s) == s[Len(s)]

-----------------------------------------------------------------------------
(* The state channels (agentState) *)

\* The value of a channel nothing has written, and of a key an update leaves out.
Undefined == "undefined"

\* A messages reducer that keeps only the update.
messagesReducerReplaces(x, y) == y

\* A messages reducer that drops the Rag answers of the log it extends.
messagesReducerDropsRag(x, y) == SelectSeq(x, LAMBDA e : e.name # "Rag") \o y

\* messages: reducer (x, y) => x.concat(y).
messagesReducer(x, y) == x \o y

\* A sender reducer that keeps the first sender: x ?? y ?? 'user'.
senderReducerKeepsFirst(x, y) ==
    IF x # Undefined THEN x
    ELSE IF y # Undefined THEN y
    ELSE "user"

\* sender: reducer (x, y) => y ?? x ?? 'user'.
senderReducer(x, y) ==
    IF y # Undefined THEN y
    ELSE IF x # Undefined THEN x
    ELSE "user"

\* sender: default: () => 'user'.
senderDefault == "user"

\* The channels after a node's update { messages, sender? } is folded in.
applyUpdate(state, update) ==
    [messages |-> messagesReducer(state.messages, update.messages),
     sender   |-> IF update.sender = Undefined
                  THEN state.sender
                  ELSE senderReducer(state.sender, update.sender)]

-----------------------------------------------------------------------------
(* The nodes *)

\* The tool calls a completion may carry, by tool name: one call of each tool,
\* and two calls that mix rag_search with tavily_search.
CallNameLists ==
    {<<"rag_search">>, <<"tavily_search">>, <<"other_tool">>,
     <<"rag_search", "tavily_search">>}

ToolCalls(names, at) ==
    [i \in DOMAIN names |-> [id |-> <<at, i>>, name |-> names[i]]]

\* An agent node that appends every completion as the model returned it.
runAgentNodeAsIs(name, content, calls) ==
    [messages |-> <<AIMessage(content, calls, name)>>, sender |-> name]

\* runAgentNode: a completion without tool calls becomes a HumanMessage named
\* after the node; the update names the node as sender.
runAgentNode(name, content, calls) ==
    LET result == IF Len(calls) = 0
                  THEN HumanMessage(content, name)
                  ELSE AIMessage(content, calls, name)
    IN  [messages |-> <<result>>, sender |-> name]

\* A filter that looks at tool calls only and never at the name.
tavilyKeepsAnyName(e) ==
    \A i \in DOMAIN e.tool_calls : e.tool_calls[i].name # "rag_search"

\* A filter that drops every message with tool calls.
tavilyKeepsNoToolCalls(e) ==
    Len(e.tool_calls) = 0 /\ e.name \notin {"Rag", "rag_search"}

\* The filter of the Tavily node: a message with tool calls stays when none of
\* them names rag_search; any other message stays unless named Rag or rag_search.
tavilyKeeps(e) ==
    IF Len(e.tool_calls) > 0
    THEN \A i \in DOMAIN e.tool_calls : e.tool_calls[i].name # "rag_search"
    ELSE e.name \notin {"Rag", "rag_search"}

tavilyFilter(msgs) == SelectSeq(msgs, tavilyKeeps)

\* state.messages as the node hands it to its agent.
agentInput(name, state) ==
    IF name = "Tavily" THEN tavilyFilter(state.messages) ELSE state.messages

\* A tool node that records itself as the sender.
toolNodeAsSender(state, ok) ==
    LET calls == Last(state.messages).tool_calls
    IN  [messages |-> [i \in DOMAIN calls |->
                          ToolMessage("result", calls[i].name, calls[i].id)],
         sender   |-> "call_tool"]

\* A tool node that answers the first tool call only.
toolNodeFirstCallOnly(state, ok) ==
    LET calls == Last(state.messages).tool_calls
    IN  [messages |-> <<ToolMessage("result", calls[1].name, calls[1].id)>>,
         sender   |-> Undefined]

\* toolNode: one ToolMessage per tool call of the last message, in order, named
\* after the tool and tagged with the call's id.  A tool that is not registered
\* or that throws gives an error message (ok[i] says whether call i succeeds).
toolNode(state, ok) ==
    LET calls == Last(state.messages).tool_calls
        out(i) == IF calls[i].name \in RegisteredTools /\ ok[i]
                  THEN ToolMessage("result", calls[i].name, calls[i].id)
                  ELSE ToolMessage("Error", calls[i].name, calls[i].id)
    IN  [messages |-> [i \in DOMAIN calls |-> out(i)], sender |-> Undefined]

-----------------------------------------------------------------------------
(* The router and the edges *)

\* A router that looks for the sentinel before the tool calls.
routerSentinelFirst(state) ==
    LET lastMessage == Last(state.messages)
    IN  IF includes(lastMessage.content, Sentinel) THEN "end"
        ELSE IF Len(lastMessage.tool_calls) > 0 THEN "call_tool"
        ELSE "continue"

\* A router that honours the sentinel only when the Coordinator is the sender.
routerBySender(state) ==
    LET lastMessage == Last(state.messages)
    IN  IF Len(lastMessage.tool_calls) > 0 THEN "call_tool"
        ELSE IF state.sender = "Coordinator" /\ includes(lastMessage.content, Sentinel)
        THEN "end"
        ELSE "continue"

\* router(state): tool calls first, then the sentinel, else continue.
router(state) ==
    LET lastMessage == Last(state.messages)
    IN  IF Len(lastMessage.tool_calls) > 0 THEN "call_tool"
        ELSE IF includes(lastMessage.content, Sentinel) THEN "end"
        ELSE "continue"

\* The path function of call_tool's conditional edge: (state) => state.sender.
callToolPath(state) == state.sender

\* Path maps in which Rag's continue skips Tavily.
pathMapSkipsTavily(n) ==
    CASE n = "Coordinator" -> [continue |-> "Rag", end |-> "END"]
      [] n = "Rag"         -> [continue |-> "Coordinator", call_tool |-> "call_tool"]
      [] n = "Tavily"      -> [continue |-> "Coordinator", call_tool |-> "call_tool"]
      [] n = "call_tool"   -> [Tavily |-> "Tavily", Rag |-> "Rag"]

\* Path maps in which a specialist's sentinel ends the Run as well.
pathMapEndsAnywhere(n) ==
    CASE n = "Coordinator" -> [continue |-> "Rag", end |-> "END"]
      [] n = "Rag"         -> [continue |-> "Tavily", call_tool |-> "call_tool", end |-> "END"]
      [] n = "Tavily"      -> [continue |-> "Coordinator", call_tool |-> "call_tool", end |-> "END"]
      [] n = "call_tool"   -> [Tavily |-> "Tavily", Rag |-> "Rag"]

\* Path maps in which the Coordinator hands over to Tavily, skipping Rag.
pathMapSkipsRag(n) ==
    CASE n = "Coordinator" -> [continue |-> "Tavily", end |-> "END"]
      [] n = "Rag"         -> [continue |-> "Tavily", call_tool |-> "call_tool"]
      [] n = "Tavily"      -> [continue |-> "Coordinator", call_tool |-> "call_tool"]
      [] n = "call_tool"   -> [Tavily |-> "Tavily", Rag |-> "Rag"]

\* Path maps in which the Coordinator's sentinel starts another round.
pathMapNeverEnds(n) ==
    CASE n = "Coordinator" -> [continue |-> "Rag", end |-> "Rag"]
      [] n = "Rag"         -> [continue |-> "Tavily", call_tool |-> "call_tool"]
      [] n = "Tavily"      -> [continue |-> "Coordinator", call_tool |-> "call_tool"]
      [] n = "call_tool"   -> [Tavily |-> "Tavily", Rag |-> "Rag"]

\* addConditionalEdges: the path map of each node.
pathMap(n) ==
    CASE n = "Coordinator" -> [continue |-> "Rag", end |-> "END"]
      [] n = "Rag"         -> [continue |-> "Tavily", call_tool |-> "call_tool"]
      [] n = "Tavily"      -> [continue |-> "Coordinator", call_tool |-> "call_tool"]
      [] n = "call_tool"   -> [Tavily |-> "Tavily", Rag |-> "Rag"]

\* The label the conditional edge of node n computes on the updated state.
edgeLabel(n, state) ==
    IF n = "call_tool" THEN callToolPath(state) ELSE router(state)

NoDestination == "none"

\* The node a label leads to, or NoDestination when the path map lacks it.
destination(n, lbl) ==
    IF lbl \in DOMAIN pathMap(n) THEN pathMap(n)[lbl] ELSE NoDestination

-----------------------------------------------------------------------------
(* The executor: graph.invoke *)

state == [messages |-> messages, sender |-> sender]

\* An executor that allows one step more.
outOfStepsLate(s) == s > RecursionLimit + 1

\* The executor stops a Run whose step counter has passed the recursion limit.
\* START's step is step 0 and the k-th node step is step k; the counter is
\* tested after a step's update is folded in and before the next node is
\* looked up, so the 25th node step is the last one and it ends the Run with
\* the recursion error.
outOfSteps(s) == s > RecursionLimit

\* The end of a step of node n that produced `update`: the conditional edge of
\* n runs on the updated state; without a destination the step fails and its
\* update is dropped; otherwise the update is folded in, the step is counted,
\* and the Run stops when out of steps, ends at END or goes on to the next node.
finishStep(n, update) ==
    LET after == applyUpdate(state, update)
        lbl   == edgeLabel(n, after)
        dest  == destination(n, lbl)
    IN  /\ lastNode' = n
        /\ label' = lbl
        /\ IF dest = NoDestination
           THEN /\ status' = "InvalidEdge"
                /\ UNCHANGED <<node, messages, sender, step>>
           ELSE /\ messages' = after.messages
                /\ sender' = after.sender
                /\ step' = step + 1
                /\ IF outOfSteps(step + 1)
                   THEN status' = "GraphRecursionError" /\ node' = node
                   ELSE IF dest = "END"
                   THEN status' = "done" /\ node' = "END"
                   ELSE status' = "running" /\ node' = dest

\* run(input): this.graph.invoke on the compiled graph; the START step seeds
\* the log with the user's message, leaves sender at its default and follows
\* addEdge(START, 'Coordinator').
run(input) ==
    /\ status = "running"
    /\ node = "START"
    /\ graph = "compiled"
    /\ messages' = <<UserMessage(input)>>
    /\ sender' = senderDefault
    /\ step' = step + 1
    /\ node' = "Coordinator"
    /\ lastNode' = "START"
    /\ UNCHANGED <<status, label, view, toolTurns, runs, channels, graph, initAt>>

\* A step of an agent node whose model call returns a completion.
agentStep(n) ==
    /\ status = "running"
    /\ node = n
    /\ \E content \in Contents :
       \E names \in {<<>>} \cup (IF toolTurns < MaxToolTurns THEN CallNameLists ELSE {}) :
          /\ view' = IF n = "Tavily" THEN agentInput(n, state) ELSE view
          /\ toolTurns' = IF Len(names) > 0 THEN toolTurns + 1 ELSE toolTurns
          /\ finishStep(n, runAgentNode(n, content, ToolCalls(names, step)))
    /\ UNCHANGED <<runs, channels, graph, initAt>>

\* A step of an agent node whose model call throws: agent.invoke rejects and
\* so does graph.invoke.
agentFails(n) ==
    /\ status = "running"
    /\ node = n
    /\ view' = IF n = "Tavily" THEN agentInput(n, state) ELSE view
    /\ status' = "ModelInvocationError"
    /\ lastNode' = n
    /\ UNCHANGED <<node, messages, sender, step, label, toolTurns, runs, channels,
                   graph, initAt>>

\* A step of call_tool.
toolStep ==
    /\ status = "running"
    /\ node = "call_tool"
    /\ \E ok \in [DOMAIN Last(messages).tool_calls -> BOOLEAN] :
          finishStep("call_tool", toolNode(state, ok))
    /\ UNCHANGED <<view, toolTurns, runs, channels, graph, initAt>>

-----------------------------------------------------------------------------
(* Concurrent invocations of run on the same service *)

RunIds == {1, 2}

\* The question each invocation is made with.
questionOf(r) == IF r = 1 THEN "question" ELSE "other question"

\* An executor that keeps one set of channels for the whole compiled graph.
channelsShared(r) == 1

\* graph.invoke builds the channels of its invocation from the state
\* definition: the graph is compiled without a checkpointer and run keeps
\* nothing on the service, so every invocation works on channels of its own.
channelsFor(r) == r

\* An invocation that has not been made, and channels nothing wrote to.
NotStarted ==
    [node |-> "START", lastNode |-> "none", step |-> 0, status |-> "running",
     own |-> <<>>, ownSender |-> Undefined, toolTurns |-> 0]

Empty == [messages |-> <<>>, sender |-> Undefined]

\* The state invocation r reads and writes.
stateOf(r) == channels[channelsFor(r)]

\* The end of a step of node n of invocation r that produced `update`, as
\* finishStep: own and ownSender record what r's own steps wrote.
finishStepOf(r, n, update, turns) ==
    LET after == applyUpdate(stateOf(r), update)
        lbl   == edgeLabel(n, after)
        dest  == destination(n, lbl)
        me    == runs[r]
    IN  IF dest = NoDestination
        THEN /\ runs' = [runs EXCEPT ![r] =
                    [me EXCEPT !.lastNode = n, !.status = "InvalidEdge"]]
             /\ UNCHANGED channels
        ELSE /\ channels' = [channels EXCEPT ![channelsFor(r)] = after]
             /\ runs' = [runs EXCEPT ![r] =
                    [node      |-> dest,
                     lastNode  |-> n,
                     step      |-> me.step + 1,
                     status    |-> IF outOfSteps(me.step + 1) THEN "GraphRecursionError"
                                   ELSE IF dest = "END" THEN "done" ELSE "running",
                     own       |-> messagesReducer(me.own, update.messages),
                     ownSender |-> senderReducer(me.ownSender, update.sender),
                     toolTurns |-> turns]]

single == <<node, lastNode, messages, sender, step, status, label, view, toolTurns,
            graph, initAt>>

\* run(input) of invocation r.
runOf(r, input) ==
    /\ runs[r].status = "running"
    /\ runs[r].node = "START"
    /\ channels' = [channels EXCEPT ![channelsFor(r)] =
            [messages |-> <<UserMessage(input)>>, sender |-> senderDefault]]
    /\ runs' = [runs EXCEPT ![r] =
            [NotStarted EXCEPT !.node = "Coordinator", !.lastNode = "START",
                               !.step = 1, !.own = <<UserMessage(input)>>,
                               !.ownSender = senderDefault]]
    /\ UNCHANGED single

\* A step of agent node n of invocation r whose model call returns.
agentStepOf(r, n) ==
    /\ runs[r].status = "running"
    /\ runs[r].node = n
    /\ runs[r].step <= MaxConcurrentSteps
    /\ \E content \in Contents :
       \E names \in {<<>>} \cup (IF runs[r].toolTurns < MaxToolTurns
                                 THEN CallNameLists ELSE {}) :
          finishStepOf(r, n, runAgentNode(n, content, ToolCalls(names, runs[r].step)),
                       IF Len(names) > 0 THEN runs[r].toolTurns + 1
                       ELSE runs[r].toolTurns)
    /\ UNCHANGED single

\* A step of agent node n of invocation r whose model call throws.
agentFailsOf(r, n) ==
    /\ runs[r].status = "running"
    /\ runs[r].node = n
    /\ runs[r].step <= MaxConcurrentSteps
    /\ runs' = [runs EXCEPT ![r] =
            [@ EXCEPT !.lastNode = n, !.status = "ModelInvocationError"]]
    /\ UNCHANGED channels
    /\ UNCHANGED single

\* A step of call_tool of invocation r.
toolStepOf(r) ==
    /\ runs[r].status = "running"
    /\ runs[r].node = "call_tool"
    /\ runs[r].step <= MaxConcurrentSteps
    /\ \E ok \in [DOMAIN Last(stateOf(r).messages).tool_calls -> BOOLEAN] :
          finishStepOf(r, "call_tool", toolNode(stateOf(r), ok), runs[r].toolTurns)
    /\ UNCHANGED single

-----------------------------------------------------------------------------
(* The constructor and init *)

\* The awaits of init in program order: the three createAgent calls, then,
\* with the workflow built and compiled, the drawing of the graph's image.
InitAwaits == <<"coordinatorAgent", "knowledgeAgent", "tavilyAgent", "graphStateImage">>

awaitAfter(at) ==
    IF \E i \in 1..(Len(InitAwaits) - 1) : InitAwaits[i] = at
    THEN InitAwaits[(CHOOSE i \in 1..(Len(InitAwaits) - 1) : InitAwaits[i] = at) + 1]
    ELSE "done"

\* this.graph = this.workflow.compile() runs when init resumes from its last
\* createAgent.
compiledBefore(at) == at = "tavilyAgent"

\* init resumes from the await it is suspended at and runs to the next one, or
\* to its end.
initResumes ==
    /\ initAt # "done"
    /\ initAt' = awaitAfter(initAt)
    /\ graph' = IF compiledBefore(initAt) THEN "compiled" ELSE graph
    /\ UNCHANGED <<node, lastNode, messages, sender, step, status, label, view,
                   toolTurns, runs, channels>>

\* run(input) while this.graph is unset: this.graph.invoke throws.
runUnset(input) ==
    /\ status = "running"
    /\ node = "START"
    /\ graph = Undefined
    /\ status' = "TypeError"
    /\ lastNode' = "START"
    /\ UNCHANGED <<node, messages, sender, step, label, view, toolTurns, runs,
                   channels, graph, initAt>>

\* The state of a Run before run is called.
NoRun ==
    /\ node = "START"
    /\ lastNode = "none"
    /\ messages = <<>>
    /\ sender = Undefined
    /\ step = 0
    /\ status = "running"
    /\ label = "none"
    /\ view = <<>>
    /\ toolTurns = 0
    /\ runs = [r \in RunIds |-> NotStarted]
    /\ channels = [c \in RunIds |-> Empty]

\* A service whose init has returned.
Init ==
    /\ NoRun
    /\ graph = "compiled"
    /\ initAt = "done"

\* The constructor has returned: it called init without awaiting it, and init
\* ran to its first await.
Constructed ==
    /\ NoRun
    /\ graph = Undefined
    /\ initAt = InitAwaits[1]

Next ==
    \/ \E input \in Questions : run(input)
    \/ \E n \in AgentNames : agentStep(n)
    \/ \E n \in AgentNames : agentFails(n)
    \/ toolStep

Spec == Init /\ [][Next]_vars

NextTwoRuns ==
    \/ \E r \in RunIds : \E input \in {questionOf(r)} : runOf(r, input)
    \/ \E r \in RunIds : \E n \in AgentNames : agentStepOf(r, n)
    \/ \E r \in RunIds : \E n \in AgentNames : agentFailsOf(r, n)
    \/ \E r \in RunIds : toolStepOf(r)

SpecTwoRuns == Init /\ [][NextTwoRuns]_vars

NextConstructed ==
    \/ initResumes
    \/ \E input \in Questions : runUnset(input)
    \/ \E input \in Questions : run(input)
    \/ \E n \in AgentNames : agentStep(n)
    \/ \E n \in AgentNames : agentFails(n)
    \/ toolStep

SpecConstructed == Constructed /\ [][NextConstructed]_vars

-----------------------------------------------------------------------------
(* Vocabulary of the properties *)

ErrorStatuses == {"GraphRecursionError", "InvalidEdge", "ModelInvocationError"}

\* The update of the latest step was folded into the channels.
Applied == status \in {"running", "done", "GraphRecursionError"}

\* The content carries the termination sentinel.
CarriesSentinel(content) == content \in {"answer FINAL ANSWER"}

NoSentinelInLog ==
    \A i \in DOMAIN messages : ~CarriesSentinel(messages[i].content)

HasToolCalls(m) == Len(m.tool_calls) > 0

\* The messages with tool calls the agent at the current position can append.
ToolCallMessages ==
    {AIMessage(c, ToolCalls(names, step), node) :
        c \in Contents, names \in CallNameLists}

\* The messages without tool calls an agent step can append, whatever the node.
PlainMessages == {HumanMessage(c, n) : c \in Contents, n \in AgentNames}

Senders == AgentNames \cup {"user"}

-----------------------------------------------------------------------------
(* C1: every step that changes the log or the position advances the step     *)
(* counter by exactly 1, the counter changes in no other way, it never       *)
(* passes limit + 1, and once it has passed the limit the Run is over: a Run *)
(* executes at most limit + 1 steps (START's included) and then has ended or *)
(* failed with the recursion error.                                          *)
C1_StepsBounded ==
    [][ /\ (messages' # messages \/ node' # node) => step' = step + 1
        /\ step' # step => step' = step + 1
        /\ step' <= RecursionLimit + 1
        /\ step' > RecursionLimit => status' = "GraphRecursionError"
        /\ status' = "GraphRecursionError" => step' > RecursionLimit
      ]_vars

C1_Witness ==
    /\ status = "GraphRecursionError"
    /\ step = RecursionLimit + 1
    /\ toolTurns = 1

(* C2: a Run whose log holds no message with the sentinel has not reached    *)
(* END; while it runs its counter is within the limit; and when it fails     *)
(* with the recursion error it does so at step 25: 25 node steps after       *)
(* START's, the counter at 26.                                               *)
C2_NoSentinelNeverEnds ==
    NoSentinelInLog =>
        /\ status # "done"
        /\ node # "END"
        /\ status = "running" => step <= RecursionLimit
        /\ status = "GraphRecursionError" =>
              /\ step = RecursionLimit + 1
              /\ Len(messages) >= RecursionLimit + 1
              /\ lastNode \in AgentNames \cup {"call_tool"}

C2_Witness ==
    /\ NoSentinelInLog
    /\ status = "GraphRecursionError"
    /\ toolTurns = 0
    /\ lastNode = "Coordinator"

(* C3: whenever the last message carries tool calls the router returns       *)
(* call_tool, whatever its content, the sentinel included: this holds of the  *)
(* message an agent step has just appended and, while the Run goes on, of    *)
(* every message with tool calls the next agent step could append.           *)
C3_ToolCallsFirst ==
    /\ (lastNode \in AgentNames /\ Applied /\ HasToolCalls(Last(messages)))
          => label = "call_tool"
    /\ (status = "running" /\ node \in AgentNames) =>
          \A m \in ToolCallMessages :
              router([messages |-> Append(messages, m), sender |-> node]) = "call_tool"

C3_Witness ==
    /\ lastNode = "Rag"
    /\ node = "call_tool"
    /\ HasToolCalls(Last(messages))
    /\ CarriesSentinel(Last(messages).content)
    /\ label = "call_tool"

(* C4: for a last message without tool calls the router returns end when the *)
(* content carries the sentinel and continue otherwise, and the label is the *)
(* same whoever the sender is and whatever the earlier messages are.         *)
C4_LastMessageOnly ==
    /\ (lastNode \in AgentNames /\ Applied /\ ~HasToolCalls(Last(messages)))
          => label = IF CarriesSentinel(Last(messages).content)
                     THEN "end" ELSE "continue"
    /\ (status = "running" /\ messages # <<>>) =>
          /\ \A m \in PlainMessages : \A s \in Senders :
                router([messages |-> <<messages[1], m>>, sender |-> s])
                  = IF CarriesSentinel(m.content) THEN "end" ELSE "continue"
          /\ \A s \in Senders :
                router([messages |-> <<Last(messages)>>, sender |-> s])
                  = router(state)

C4_Witness ==
    /\ lastNode = "Tavily"
    /\ sender = "Tavily"
    /\ label = "continue"
    /\ node = "Coordinator"
    /\ \E i \in DOMAIN messages : HasToolCalls(messages[i])

(* C5: the position moves only along the transition table: START to          *)
(* Coordinator; Coordinator to END on end and to Rag on continue; Rag to      *)
(* Tavily on continue and to call_tool on call_tool; Tavily to Coordinator on *)
(* continue and to call_tool on call_tool; call_tool to Rag or Tavily.        *)
C5_TransitionTable ==
    [][ node' # node =>
          \/ node = "START" /\ node' = "Coordinator"
          \/ node = "Coordinator" /\ label' = "end" /\ node' = "END"
          \/ node = "Coordinator" /\ label' = "continue" /\ node' = "Rag"
          \/ node = "Rag" /\ label' = "continue" /\ node' = "Tavily"
          \/ node = "Rag" /\ label' = "call_tool" /\ node' = "call_tool"
          \/ node = "Tavily" /\ label' = "continue" /\ node' = "Coordinator"
          \/ node = "Tavily" /\ label' = "call_tool" /\ node' = "call_tool"
          \/ node = "call_tool" /\ node' \in {"Rag", "Tavily"}
      ]_vars

C5_Witness ==
    /\ node = "END"
    /\ lastNode = "Coordinator"
    /\ \E i \in DOMAIN messages : messages[i].by = "call_tool"
    /\ \E i \in DOMAIN messages : messages[i].name = "Tavily"

(* C6: a call_tool step never fails for want of an edge, leaves sender on    *)
(* the agent that ran the step before it (the one that issued the tool       *)
(* calls), and when the Run goes on the next node is that agent.             *)
C6_BackToCaller ==
    [][ (node = "call_tool" /\ lastNode' = "call_tool") =>
          /\ lastNode \in {"Rag", "Tavily"}
          /\ Last(messages).by = lastNode
          /\ sender = lastNode
          /\ sender' = lastNode
          /\ status' # "InvalidEdge"
          /\ status' = "running" => node' = lastNode
      ]_vars

C6_Witness ==
    /\ lastNode = "call_tool"
    /\ node = "Tavily"
    /\ status = "running"
    /\ Last(messages).type = "tool"

(* C7 as stated: the view handed to the Tavily agent holds no message        *)
(* produced by Rag, none named Rag or rag_search and none whose tool calls   *)
(* name rag_search.                                                          *)
CallsRagSearch(m) ==
    \E i \in DOMAIN m.tool_calls : m.tool_calls[i].name = "rag_search"

C7_NothingFromRag ==
    \A i \in DOMAIN view :
        /\ view[i].by # "Rag"
        /\ view[i].name \notin {"Rag", "rag_search"}
        /\ ~CallsRagSearch(view[i])

(* C7 amended: the view holds no message named Rag or rag_search and none    *)
(* whose tool calls name rag_search; a message produced by Rag is in the     *)
(* view only when it carries tool calls none of which names rag_search.      *)
C7_NoRagSearchData ==
    \A i \in DOMAIN view :
        /\ view[i].name \notin {"Rag", "rag_search"}
        /\ ~CallsRagSearch(view[i])
        /\ view[i].by = "Rag" => HasToolCalls(view[i])

C7_Witness ==
    /\ lastNode = "Tavily"
    /\ Applied
    /\ \E i \in DOMAIN messages : messages[i].name = "Rag"
    /\ \E i \in DOMAIN messages : messages[i].name = "rag_search"
    /\ \E i \in DOMAIN messages : CallsRagSearch(messages[i])
    /\ Len(view) > 1

(* C8: a Tavily step that is applied leaves every message of the canonical   *)
(* log in place and appends exactly one message, the one Tavily produced;    *)
(* a Tavily step that fails leaves the log as it was.                        *)
C8_CanonicalLogUntouched ==
    [][ (node = "Tavily" /\ lastNode' = "Tavily") =>
          \/ messages' = messages
          \/ /\ Len(messages') = Len(messages) + 1
             /\ SubSeq(messages', 1, Len(messages)) = messages
             /\ Last(messages').by = "Tavily"
             /\ \A i \in DOMAIN messages : messages'[i] = messages[i]
      ]_vars

C8_Witness ==
    /\ lastNode = "Tavily"
    /\ Applied
    /\ Last(messages).by = "Tavily"
    /\ Len(view) + 1 < Len(messages)
    /\ \E i \in DOMAIN messages : messages[i].name = "Rag"

(* C9: every step leaves the log as it was or extends it: the log before is  *)
(* a prefix of the log after; and the first message of a log that has one is *)
(* the user's question.                                                      *)
C9_AppendOnly ==
    /\ [][ /\ Len(messages') >= Len(messages)
           /\ SubSeq(messages', 1, Len(messages)) = messages ]_vars
    /\ [](messages # <<>> =>
            /\ messages[1].type = "user"
            /\ messages[1].content \in Questions)

C9_Witness ==
    /\ Len(messages) >= 6
    /\ messages[1].type = "user"
    /\ \E i \in DOMAIN messages : messages[i].type = "tool"
    /\ status = "done"

(* C10 as stated: in every state with a log, sender is the node that         *)
(* produced the last message.                                                *)
C10_SenderIsLastProducer ==
    messages # <<>> => sender = Last(messages).by

(* C10 amended: sender is the node that produced the last message of the log *)
(* that is not a tool result ("user" while that is the question): after an   *)
(* agent step it is that agent, and a call_tool step leaves it on the agent   *)
(* whose tool calls it answered.                                             *)
RECURSIVE LastNonToolFrom(_, _)
LastNonToolFrom(log, i) ==
    IF log[i].type # "tool" THEN log[i] ELSE LastNonToolFrom(log, i - 1)

LastNonTool(log) == LastNonToolFrom(log, Len(log))

C10_SenderIsLastAgent ==
    messages # <<>> =>
        /\ sender = LastNonTool(messages).by
        /\ (lastNode \in AgentNames /\ Applied) => sender = Last(messages).by
        /\ (lastNode = "call_tool" /\ Applied) =>
              /\ Last(messages).by = "call_tool"
              /\ sender \in {"Rag", "Tavily"}

C10_Witness ==
    /\ lastNode = "call_tool"
    /\ Applied
    /\ Last(messages).by = "call_tool"
    /\ sender = "Rag"

-----------------------------------------------------------------------------
(* C11: a call_tool step whose last message names a tool that is not         *)
(* registered fails the Run: no tool message ever answers such a call, and   *)
(* after a call_tool step that was applied every tool message of the log     *)
(* answers a registered tool.                                                *)
C11_UnknownToolFailsRun ==
    \A i \in DOMAIN messages :
        messages[i].type = "tool" => messages[i].name \in RegisteredTools

(* C12: a failed step fails the Run: a model call that fails leaves the Run   *)
(* failed at that agent's step, and a tool execution that fails is never     *)
(* answered with a tool message in a log that goes on: no tool message of a  *)
(* registered tool reports an error.                                         *)
C12_FailedStepFailsRun ==
    /\ status = "ModelInvocationError" => (lastNode \in AgentNames /\ node = lastNode)
    /\ \A i \in DOMAIN messages :
          (messages[i].type = "tool" /\ messages[i].name \in RegisteredTools)
              => messages[i].content # "Error"

-----------------------------------------------------------------------------
(* The HTTP entry point: StateGraphController.run hands body.question to     *)
(* the service's run as it came, the empty text included, and answers with   *)
(* the content of the last message of the final state.                       *)
BodyQuestions == Questions \cup {""}

controllerRun(question) == run(question)

answer == Last(messages).content

NextAnyQuestion ==
    \/ \E question \in BodyQuestions : controllerRun(question)
    \/ \E n \in AgentNames : agentStep(n)
    \/ \E n \in AgentNames : agentFails(n)
    \/ toolStep

SpecAnyQuestion == Init /\ [][NextAnyQuestion]_vars

(* C13: an empty question is rejected before a Run starts: no state is ever  *)
(* seeded with it, so no log begins with an empty question and no node runs  *)
(* on one.                                                                   *)
C13_EmptyQuestionRejected ==
    messages # <<>> => messages[1].content # ""

-----------------------------------------------------------------------------
(* C14: a Run reaches END only directly after a Coordinator step, and the    *)
(* answer it returns is the content of the last message of the log, a        *)
(* message attributed to the Coordinator, without tool calls, that contains  *)
(* the sentinel.                                                             *)
C14_EndsAfterCoordinator ==
    (status = "done" \/ node = "END") =>
        /\ lastNode = "Coordinator"
        /\ Last(messages).name = "Coordinator"
        /\ ~HasToolCalls(Last(messages))
        /\ CarriesSentinel(answer)

C14_Witness ==
    /\ status = "done"
    /\ node = "END"
    /\ Len(messages) > 2
    /\ CarriesSentinel(answer)

-----------------------------------------------------------------------------
(* C15: concurrent Runs are isolated: in every interleaving of the steps of  *)
(* two Runs on the same service, the log of each Run holds its own question  *)
(* followed by the messages of its own steps and nothing else, its sender is *)
(* the one its own steps wrote, and the node it executes next is the one its *)
(* own log and sender lead to.                                               *)
C15_RunsIsolated ==
    \A r \in RunIds :
        runs[r].node # "START" =>
            /\ stateOf(r).messages = runs[r].own
            /\ stateOf(r).sender = runs[r].ownSender
            /\ stateOf(r).messages[1] = UserMessage(questionOf(r))
            /\ \A i \in DOMAIN stateOf(r).messages, o \in RunIds \ {r} :
                  stateOf(r).messages[i].content # questionOf(o)
            /\ (runs[r].status = "running" /\ runs[r].lastNode # "START") =>
                  runs[r].node =
                      destination(runs[r].lastNode,
                          edgeLabel(runs[r].lastNode,
                              [messages |-> runs[r].own, sender |-> runs[r].ownSender]))

C15_Witness ==
    /\ \A r \in RunIds : runs[r].status = "running" /\ Len(stateOf(r).messages) >= 3
    /\ runs[1].node = "call_tool"
    /\ runs[2].node = "Tavily"
    /\ stateOf(1).sender # stateOf(2).sender

-----------------------------------------------------------------------------
\* The index of the latest message named `name` among the first k, 0 if none.
RECURSIVE LastNamed(_, _)
LastNamed(name, k) ==
    IF k = 0 THEN 0
    ELSE IF messages[k].name = name THEN k
    ELSE LastNamed(name, k - 1)

\* An answer of agent `name`: a message named after it without tool calls.
IsAnswerOf(m, name) == m.name = name /\ ~HasToolCalls(m)

(* C16: whenever control returns to the Coordinator, that is before every    *)
(* Coordinator step but the first, the log holds an answer attributed to Rag *)
(* and an answer attributed to Tavily, each without tool calls and each      *)
(* appended after the previous Coordinator message.                          *)
C16_BothSpecialistsAnswered ==
    (status = "running" /\ node = "Coordinator" /\ lastNode # "START") =>
        LET c == LastNamed("Coordinator", Len(messages))
        IN  /\ c > 0
            /\ \E i \in DOMAIN messages : i > c /\ IsAnswerOf(messages[i], "Rag")
            /\ \E j \in DOMAIN messages : j > c /\ IsAnswerOf(messages[j], "Tavily")

C16_Witness ==
    /\ status = "running"
    /\ node = "Coordinator"
    /\ lastNode = "Tavily"
    /\ LastNamed("Coordinator", Len(messages)) > 2
    /\ \E i \in DOMAIN messages : messages[i].type = "tool"

-----------------------------------------------------------------------------
(* C17: if the Coordinator's very first message has no tool calls and        *)
(* contains the sentinel, the Run reaches END after exactly one node step,   *)
(* with a log that holds the question and that message only: no message is   *)
(* attributed to Rag or to Tavily.                                           *)
C17_ImmediateAnswer ==
    (/\ Len(messages) >= 2
     /\ messages[2].by = "Coordinator"
     /\ ~HasToolCalls(messages[2])
     /\ includes(messages[2].content, Sentinel)) =>
        /\ status = "done"
        /\ node = "END"
        /\ lastNode = "Coordinator"
        /\ step = 2
        /\ Len(messages) = 2
        /\ \A i \in DOMAIN messages : messages[i].name \notin {"Rag", "Tavily"}

C17_Witness ==
    /\ Len(messages) = 2
    /\ messages[2] = HumanMessage("answer FINAL ANSWER", "Coordinator")
    /\ status = "done"

-----------------------------------------------------------------------------
(* C18: a call_tool step appends exactly one tool-role message per tool call *)
(* of the last message, in the order of those calls, each tagged with the id *)
(* of the call it answers and named after the tool called; it appends        *)
(* nothing else and changes no earlier message.                              *)
C18_OneToolMessagePerCall ==
    [][(status = "running" /\ node = "call_tool") =>
          LET calls == Last(messages).tool_calls
              n     == Len(messages)
          IN  /\ lastNode' = "call_tool"
              /\ Len(messages') = n + Len(calls)
              /\ \A i \in DOMAIN messages : messages'[i] = messages[i]
              /\ \A k \in DOMAIN calls :
                    /\ messages'[n + k].type = "tool"
                    /\ messages'[n + k].tool_call_id = calls[k].id
                    /\ messages'[n + k].name = calls[k].name
                    /\ messages'[n + k].tool_calls = <<>>]_vars

C18_Witness ==
    /\ lastNode = "call_tool"
    /\ Len(messages) >= 4
    /\ Last(messages).type = "tool"
    /\ messages[Len(messages) - 1].type = "tool"
    /\ messages[Len(messages) - 1].tool_call_id # Last(messages).tool_call_id
    /\ Len(messages[Len(messages) - 2].tool_calls) = 2

-----------------------------------------------------------------------------
\* What an agent step appends, `role` being the type of the message a
\* completion without tool calls is turned into: the step appends one message;
\* for every completion the agent at the current position can get, the update
\* holds a message of type `role` named after the agent with the completion's
\* content when there are no tool calls, and the completion as it is otherwise;
\* and the appended message is one of those.
AgentStepAppends(role) ==
    (status = "running" /\ node \in AgentNames /\ messages' # messages) =>
        /\ Len(messages') = Len(messages) + 1
        /\ \A c \in Contents :
              LET m == runAgentNode(node, c, <<>>).messages[1]
              IN  m.type = role /\ m.name = node /\ m.content = c /\ ~HasToolCalls(m)
        /\ \A c \in Contents, names \in CallNameLists :
              runAgentNode(node, c, ToolCalls(names, step)).messages
                  = <<AIMessage(c, ToolCalls(names, step), node)>>
        /\ LET m == Last(messages')
           IN  IF HasToolCalls(m)
               THEN m \in ToolCallMessages
               ELSE m.type = role /\ m.name = node /\ m.content \in Contents

(* C19, as the claim states it: an agent step whose completion carries no    *)
(* tool calls appends an assistant-role message named after the agent with   *)
(* the completion's content; a completion with tool calls is appended        *)
(* unchanged.                                                                *)
C19_AssistantRole == [][AgentStepAppends("ai")]_vars

(* C19, amended: an agent step whose completion carries no tool calls        *)
(* appends a human-role message named after the agent with the completion's  *)
(* content; a completion with tool calls is appended unchanged.              *)
C19_HumanRole == [][AgentStepAppends("human")]_vars

C19_Witness ==
    /\ lastNode = "Tavily"
    /\ Applied
    /\ Last(messages).type = "human"
    /\ Last(messages).name = "Tavily"
    /\ \E i \in DOMAIN messages : messages[i].type = "ai" /\ messages[i].by = "Rag"

-----------------------------------------------------------------------------
(* C20: the edge table is complete: whatever label the conditional edge of   *)
(* a node returns in a Run, the node's path map defines a successor for it,  *)
(* so no step fails for want of a destination.                               *)
C20_EveryLabelHasSuccessor ==
    /\ status # "InvalidEdge"
    /\ (lastNode # "none" /\ lastNode # "START" /\ label # "none") =>
          destination(lastNode, label) # NoDestination

-----------------------------------------------------------------------------
\* Message m of log `log` at index i answers a tool call an earlier message of
\* the log carries.
Paired(log, i) ==
    \E j \in 1..(i - 1) :
       \E k \in DOMAIN log[j].tool_calls :
          log[j].tool_calls[k].id = log[i].tool_call_id

(* C21: tool-call pairing survives filtering: in every view handed to the    *)
(* Tavily agent, each tool message is preceded by a message of the view that *)
(* carries the tool call with the same id.                                   *)
C21_PairingSurvivesFilter ==
    \A i \in DOMAIN view : view[i].type = "tool" => Paired(view, i)

-----------------------------------------------------------------------------
\* A message that neither carries a rag_search tool call nor is named Rag or
\* rag_search.
NotRagData(m) == ~CallsRagSearch(m) /\ m.name \notin {"Rag", "rag_search"}

\* Message m of the log is in sequence v.
RetainedIn(v, m) == \E j \in DOMAIN v : v[j] = m

\* Tool message m of the log answers a tool call of a message Tavily produced.
AnswersTavily(m) ==
    /\ m.type = "tool"
    /\ \E j \in DOMAIN messages :
          /\ messages[j].by = "Tavily"
          /\ \E k \in DOMAIN messages[j].tool_calls :
                messages[j].tool_calls[k].id = m.tool_call_id

\* What a Tavily step hands to its agent: exactly the messages of the log that
\* are not Rag data, in the order of the log, among them the question and
\* every Coordinator message; and of Tavily's own tool calls and tool results
\* all of them (always = TRUE) or those that are not Rag data.
TavilyViewIs(always) ==
    (status = "running" /\ node = "Tavily") =>
        /\ view' = SelectSeq(messages, NotRagData)
        /\ RetainedIn(view', messages[1])
        /\ \A i \in DOMAIN messages :
              messages[i].name = "Coordinator" => RetainedIn(view', messages[i])
        /\ \A i \in DOMAIN messages :
              (/\ messages[i].by = "Tavily" \/ AnswersTavily(messages[i])
               /\ always \/ NotRagData(messages[i]))
                  => RetainedIn(view', messages[i])

(* C22, as the claim states it: the view of a Tavily step is exactly the     *)
(* subsequence, in the order of the log, of the messages that neither carry  *)
(* a rag_search tool call nor are named Rag or rag_search; the question,     *)
(* every Coordinator message and Tavily's own tool calls and tool results    *)
(* are always retained.                                                      *)
C22_OwnCallsAlwaysRetained == [][TavilyViewIs(TRUE)]_vars

(* C22, amended: the view of a Tavily step is exactly that subsequence; the  *)
(* question and every Coordinator message are always retained, and Tavily's  *)
(* own tool calls and tool results are retained unless the call names        *)
(* rag_search or the result is named rag_search.                             *)
C22_FilterRemovesNothingElse == [][TavilyViewIs(FALSE)]_vars

C22_Witness ==
    /\ lastNode = "Tavily"
    /\ \E i \in DOMAIN messages :
          messages[i].by = "Tavily" /\ HasToolCalls(messages[i]) /\ RetainedIn(view, messages[i])
    /\ \E i \in DOMAIN messages :
          AnswersTavily(messages[i]) /\ RetainedIn(view, messages[i])
    /\ \E i \in DOMAIN messages : messages[i].name = "Rag"
    /\ Len(view) < Len(messages) - 1

-----------------------------------------------------------------------------
(* C23: initialisation is complete before any Run: whenever run has been     *)
(* called, init had compiled the graph; run is never invoked while the graph *)
(* is unset.                                                                 *)
C23_InitCompleteBeforeRun ==
    /\ status # "TypeError"
    /\ lastNode # "none" => graph = "compiled"

====
